---------------------------- MODULE Spec2Model ----------------------------
(***************************************************************************)
(* A model of webstruct's HtmlTokenizer / HtmlFeatureExtractor             *)
(* (src/webstruct/feature_extraction.py) and of WapitiFeatureEncoder /     *)
(* prepare_wapiti_template (src/webstruct/wapiti.py).                      *)
(*                                                                         *)
(* Python values are represented as follows:                               *)
(*   - an optional value is a sequence: None is <<>>, a present value v is *)
(*     <<v>> (Some(v));                                                    *)
(*   - a text is a sequence of lexemes (words, marker pseudo-tokens and    *)
(*     whitespace); an absent or empty text is the empty sequence, which   *)
(*     is what `text or ''` makes of both;                                 *)
(*   - a dict is a function from its keys to its values;                   *)
(*   - a Python string that is inspected character by character (a feature *)
(*     name, a template) is a sequence of one-character strings.           *)
(***************************************************************************)
EXTENDS Integers, Sequences, FiniteSets, TLC

VARIABLES
    \* ---- HtmlTokenizer -------------------------------------------------
    tagset,             \* self.tagset: Optional set of entity labels
    replace_html_tags,  \* self.replace_html_tags: Optional tag renaming
    enc_tag,            \* self.sequence_encoder_.tag, the encoder's state
    call,               \* the public call in progress: "none", "single", "tokenize"
    todo,               \* tokenize(): trees of the argument not yet visited
    X, y,               \* tokenize(): the two accumulators
    tok_pc,             \* position in tokenize_single: "idle", "walk", "ret"
    arg,                \* tokenize_single(): the caller's tree
    tree,               \* tokenize_single(): the private, prepared copy
    stack,              \* _process_tree(): the generator frames
    out,                \* _process_tree(): the pairs yielded so far
    ret,                \* tokenize_single(): the value returned
    resets,             \* history: encoder resets made by the current call
    prev_tag,           \* history: the encoder's state when the call began
    log,                \* history: one record per _tokenize_and_split call
    \* ---- HtmlFeatureExtractor ------------------------------------------
    token_features,     \* self.token_features
    global_features,    \* self.global_features
    min_df,             \* self.min_df: Optional integer
    feat_op,            \* the last method called
    feat_in,            \* its argument, a list of lists of HtmlTokens
    feat_out,           \* the value it returned
    \* ---- WapitiFeatureEncoder ------------------------------------------
    move_to_front,      \* self.move_to_front: tuple of feature names
    feature_names_,     \* self.feature_names_: Optional tuple of names
    vocabulary_,        \* self.vocabulary_: Optional dict name -> column
    enc_op,             \* the last method called
    enc_in,             \* its argument
    enc_out,            \* the value it returned, or the exception raised
    \* ---- WapitiCRF -----------------------------------------------------
    train_args,         \* self.train_args: a list or a tuple of arguments
    feature_template,   \* self.feature_template
    unlink_temp,        \* self.unlink_temp
    dev_size,           \* self.dev_size
    X_dev, y_dev,       \* fit(): the development data, Optional
    out_dev,            \* fit(): Optional path of the tagged development data
    dev_fn,             \* fit(): Optional name of the development data file
    to_unlink,          \* fit(): the names of the files to remove
    tempdir,            \* the files in self.tempdir that this fit() created
    crf_pc,             \* position in fit()
    crf_exc             \* the exception fit() is raising, "" for none

tokVars == <<tagset, replace_html_tags, enc_tag, call, todo, X, y, tok_pc,
             arg, tree, stack, out, ret, resets, prev_tag, log>>

featVars == <<token_features, global_features, min_df, feat_op, feat_in, feat_out>>

encVars == <<move_to_front, feature_names_, vocabulary_, enc_op, enc_in, enc_out>>

crfVars == <<train_args, feature_template, unlink_temp, dev_size, X_dev, y_dev,
             out_dev, dev_fn, to_unlink, tempdir, crf_pc, crf_exc>>

vars == <<tokVars, featVars, encVars, crfVars>>

\* What the methods of one component leave alone: the other components.
notTok == <<featVars, encVars, crfVars>>
notFeat == <<tokVars, encVars, crfVars>>
notEnc == <<tokVars, featVars, crfVars>>
notCrf == <<tokVars, featVars>>

None == <<>>
Some(v) == <<v>>

RECURSIVE Concat(_)
\* The concatenation of a sequence of sequences.
Concat(ss) == IF ss = <<>> THEN <<>> ELSE Head(ss) \o Concat(Tail(ss))

(***************************************************************************)
(* Bounds.                                                                 *)
(***************************************************************************)
\* tokenize(trees): the longest list of trees passed in one call.
MaxTrees == 2
\* transform / fit_transform: the largest number of documents in a corpus.
MaxDocs == 2
\* WapitiFeatureEncoder.fit / partial_fit / transform: the largest number of
\* documents in the argument.
MaxFitDocs == 2
\* prepare_template: the largest number of lines of a template.
MaxLines == 2
\* WapitiCRF(dev_size=...): the largest number of training documents set
\* aside as development data.
MaxDevSize == 1

(***************************************************************************)
(* The sequence encoder and the raw text tokenizer: collaborators of the   *)
(* tokenizer whose code is not part of the sources at hand.                *)
(***************************************************************************)
Labels == {"PER", "ORG"}
Words == {"hello", "John", "Doe", "Mary", "said"}
Space == " "

StartMarker(v) == "__START_" \o v \o "__"
EndMarker(v) == "__END_" \o v \o "__"

\* token_processor_.classify(token) -> (kind, value)
classify(tok) ==
    IF \E v \in Labels : tok = StartMarker(v)
    THEN [typ |-> "start", value |-> CHOOSE v \in Labels : tok = StartMarker(v)]
    ELSE IF \E v \in Labels : tok = EndMarker(v)
    THEN [typ |-> "end", value |-> CHOOSE v \in Labels : tok = EndMarker(v)]
    ELSE [typ |-> "token", value |-> tok]

\* text_tokenize_func(text): the lexemes of the text that are not whitespace.
text_tokenize_func(text) == SelectSeq(text, LAMBDA lx : lx # Space)

\* IobEncoder.reset(): outside any entity.
IobEncoder_reset == "O"

\* The tag that follows `tag` once a real token has been emitted with it.
IobAfterToken(tag) ==
    IF \E v \in Labels : tag = "B-" \o v
    THEN "I-" \o (CHOOSE v \in Labels : tag = "B-" \o v)
    ELSE tag

RECURSIVE IobEncode(_, _)
\* IobEncoder.encode_split(input_tokens) from state `tag`: the real tokens,
\* their tags, and the encoder's state afterwards.
IobEncode(input_tokens, tag) ==
    IF input_tokens = <<>> THEN [tokens |-> <<>>, tags |-> <<>>, tag |-> tag]
    ELSE LET c == classify(Head(input_tokens))
             rest == Tail(input_tokens)
         IN  CASE c.typ = "start" -> IobEncode(rest, "B-" \o c.value)
               [] c.typ = "end" -> IobEncode(rest, "O")
               [] OTHER ->
                    LET r == IobEncode(rest, IobAfterToken(tag))
                    IN  [tokens |-> <<Head(input_tokens)>> \o r.tokens,
                         tags |-> <<tag>> \o r.tags,
                         tag |-> r.tag]

(***************************************************************************)
(* HTML trees.  Node 1 is the root; children[n] lists n's child elements   *)
(* in order; text[n] and tail[n] are the element's head and tail text.     *)
(***************************************************************************)
S_PER == StartMarker("PER")
E_PER == EndMarker("PER")
S_ORG == StartMarker("ORG")
E_ORG == EndMarker("ORG")

\* <p></p>
TreeEmpty ==
    [tag |-> <<"p">>, children |-> << <<>> >>, text |-> << <<>> >>, tail |-> << <<>> >>]

\* <p>hello <PER>John <b>Doe</b></PER> <br> <PER>Mary</PER> said</p>
TreeReadme ==
    [tag |-> <<"p", "b", "br">>,
     children |-> << <<2, 3>>, <<>>, <<>> >>,
     text |-> << <<"hello", Space, S_PER, Space, "John", Space>>, <<"Doe">>, <<>> >>,
     tail |-> << <<>>, <<E_PER, Space>>,
                 <<Space, S_PER, Space, "Mary", Space, E_PER, Space, "said">> >>]

\* <div><p><ORG>hello</ORG> <b><PER>John</b> Doe</p>Mary</div>
TreeChain ==
    [tag |-> <<"div", "p", "b">>,
     children |-> << <<2>>, <<3>>, <<>> >>,
     text |-> << <<>>, <<S_ORG, "hello", E_ORG, Space>>, <<S_PER, "John">> >>,
     tail |-> << <<>>, <<"Mary">>, <<Space, "Doe">> >>]

\* <p>..<b>..</b>..</p>, an entity possibly left open at the end.
TreesPB ==
    { [tag |-> <<"p", "b">>,
       children |-> << <<2>>, <<>> >>,
       text |-> <<pt, bt>>,
       tail |-> << <<>>, bl >>] :
        pt \in { <<>>, <<"hello">>, <<S_ORG, "hello", E_ORG>> },
        bt \in { <<>>, <<S_PER, "John", Space, "Doe">> },
        bl \in { <<Space, "said">> } }
    \cup
    { [tag |-> <<"p", "b">>,
       children |-> << <<2>>, <<>> >>,
       text |-> <<pt, bt>>,
       tail |-> << <<>>, bl >>] :
        pt \in { <<S_PER, Space, "John">>, <<"hello", S_ORG, S_PER, "John">> },
        bt \in { <<"Doe">> },
        bl \in { <<"Mary">>, <<E_PER, Space, "said">> } }

Trees == {TreeEmpty, TreeReadme, TreeChain} \cup TreesPB

Nodes(t) == 1 .. Len(t.tag)

(***************************************************************************)
(* HtmlTokenizer                                                           *)
(***************************************************************************)
\* copy.deepcopy(tree): an equal tree that shares nothing with the caller's.
deepcopy(t) == t

\* _prepare_tree with kill_html_tags unset: rename the configured tags.
_prepare_tree(t, replace) ==
    IF replace = None THEN t
    ELSE LET m == replace[1]
         IN  [t EXCEPT !.tag = [n \in Nodes(t) |->
                  IF t.tag[n] \in DOMAIN m THEN m[t.tag[n]] ELSE t.tag[n]]]

\* _limit_tags that forgets the end markers.
_limit_tags_start_only(input_tokens, ts) ==
    IF ts = None THEN input_tokens
    ELSE SelectSeq(input_tokens,
             LAMBDA tok : ~(classify(tok).typ \in {"start"}
                            /\ classify(tok).value \notin ts[1]))

\* _limit_tags: the tokens handed to the encoder.
_limit_tags(input_tokens, ts) ==
    IF ts = None THEN input_tokens
    ELSE SelectSeq(input_tokens,
             LAMBDA tok : ~(classify(tok).typ \in {"start", "end"}
                            /\ classify(tok).value \notin ts[1]))

\* _tokenize_and_split(text) with the encoder in state `tag`.
_tokenize_and_split(text, ts, tag) ==
    LET raw == text_tokenize_func(text)
        input_tokens == _limit_tags(raw, ts)
        r == IobEncode(input_tokens, tag)
    IN  [raw |-> raw, handed |-> input_tokens,
         tokens |-> r.tokens, tags |-> r.tags, tag |-> r.tag]

\* HtmlTokens with enumerate() started at 1.
HtmlTokens_from_one(tokens, tags, elem, is_tail) ==
    [i \in 1 .. Len(tokens) |->
        [tok |-> [index |-> i, tokens |-> tokens, elem |-> elem,
                  is_tail |-> is_tail],
         tag |-> tags[i]]]

\* The pairs _process_tree yields for one segment (lines 114-115, 122-123).
HtmlTokens(tokens, tags, elem, is_tail) ==
    [i \in 1 .. Len(tokens) |->
        [tok |-> [index |-> i - 1, tokens |-> tokens, elem |-> elem,
                  is_tail |-> is_tail],
         tag |-> tags[i]]]

\* tokenize_single without the reset of the encoder.
tokenize_single_enter_no_reset(t, replace, tag) ==
    [tree |-> _prepare_tree(deepcopy(t), replace),
     tag |-> tag,
     resets |-> 0]

\* The first three statements of tokenize_single.
tokenize_single_enter(t, replace, tag) ==
    [tree |-> _prepare_tree(deepcopy(t), replace),
     tag |-> IobEncoder_reset,
     resets |-> 1]

\* The last three statements of tokenize_single: zip(*pairs), or two empty
\* lists when nothing was yielded.
tokenize_single_result(pairs) ==
    IF pairs = <<>> THEN [tokens |-> <<>>, tags |-> <<>>]
    ELSE [tokens |-> [i \in 1 .. Len(pairs) |-> pairs[i].tok],
          tags |-> [i \in 1 .. Len(pairs) |-> pairs[i].tag]]

NoResult == [tokens |-> <<>>, tags |-> <<>>]

TokInit ==
    /\ tagset \in {None, Some({"PER"})}
    /\ replace_html_tags \in {None, Some([b |-> "strong"])}
    /\ enc_tag = IobEncoder_reset
    /\ call = "none"
    /\ todo = 0
    /\ X = <<>>
    /\ y = <<>>
    /\ tok_pc = "idle"
    /\ arg = TreeEmpty
    /\ tree = TreeEmpty
    /\ stack = <<>>
    /\ out = <<>>
    /\ ret = NoResult
    /\ resets = 0
    /\ prev_tag = IobEncoder_reset
    /\ log = <<>>

\* tokenize_single(t), lines 89-91, and the creation of the generator.
Enter(t) ==
    LET e == tokenize_single_enter(t, replace_html_tags, enc_tag)
    IN  /\ arg' = t
        /\ tree' = e.tree
        /\ enc_tag' = e.tag
        /\ resets' = e.resets
        /\ prev_tag' = enc_tag
        /\ stack' = << [node |-> 1, phase |-> 0] >>
        /\ out' = <<>>
        /\ log' = <<>>
        /\ ret' = NoResult
        /\ tok_pc' = "walk"

\* A direct call of tokenize_single.
TokenizeSingle ==
    /\ call = "none"
    /\ \E t \in Trees : Enter(t)
    /\ call' = "single"
    /\ X' = <<>>
    /\ y' = <<>>
    /\ UNCHANGED <<tagset, replace_html_tags, todo>>
    /\ UNCHANGED notTok

\* tokenize(trees) with a list of n trees: the accumulators are created.
Tokenize ==
    /\ call = "none"
    /\ \E n \in 0 .. MaxTrees : todo' = n
    /\ call' = "tokenize"
    /\ X' = <<>>
    /\ y' = <<>>
    /\ UNCHANGED <<tagset, replace_html_tags, enc_tag, tok_pc, arg, tree,
                   stack, out, ret, resets, prev_tag, log>>
    /\ UNCHANGED notTok

\* tokenize(): the loop takes the next tree of the list.
TokenizeNext ==
    /\ call = "tokenize"
    /\ tok_pc = "idle"
    /\ todo > 0
    /\ \E t \in Trees : Enter(t)
    /\ UNCHANGED <<tagset, replace_html_tags, call, todo, X, y>>
    /\ UNCHANGED notTok

\* tokenize(): the list is exhausted, (X, y) is returned.
TokenizeReturn ==
    /\ call = "tokenize"
    /\ tok_pc = "idle"
    /\ todo = 0
    /\ call' = "none"
    /\ UNCHANGED <<tagset, replace_html_tags, enc_tag, todo, X, y, tok_pc,
                   arg, tree, stack, out, ret, resets, prev_tag, log>>
    /\ UNCHANGED notTok

Top == stack[Len(stack)]

Segment(elem, is_tail, text) ==
    LET r == _tokenize_and_split(text, tagset, enc_tag)
    IN  /\ enc_tag' = r.tag
        /\ out' = out \o HtmlTokens(r.tokens, r.tags, elem, is_tail)
        /\ log' = Append(log, [elem |-> elem, is_tail |-> is_tail,
                               raw |-> r.raw, handed |-> r.handed,
                               before |-> enc_tag, after |-> r.tag,
                               tokens |-> r.tokens, tags |-> r.tags])

\* _process_tree, lines 113-115: the head text of the element.
ProcessHead ==
    /\ tok_pc = "walk"
    /\ stack # <<>>
    /\ Top.phase = 0
    /\ Segment(Top.node, FALSE, tree.text[Top.node])
    /\ stack' = [stack EXCEPT ![Len(stack)].phase = 1]
    /\ UNCHANGED <<tagset, replace_html_tags, call, todo, X, y, tok_pc, arg,
                   tree, ret, resets, prev_tag>>
    /\ UNCHANGED notTok

\* _process_tree, lines 117-119: recurse into the next child.
ProcessChild ==
    /\ tok_pc = "walk"
    /\ stack # <<>>
    /\ Top.phase >= 1
    /\ Top.phase <= Len(tree.children[Top.node])
    /\ stack' = Append([stack EXCEPT ![Len(stack)].phase = Top.phase + 1],
                       [node |-> tree.children[Top.node][Top.phase], phase |-> 0])
    /\ UNCHANGED <<tagset, replace_html_tags, enc_tag, call, todo, X, y,
                   tok_pc, arg, tree, out, ret, resets, prev_tag, log>>
    /\ UNCHANGED notTok

\* _process_tree, lines 121-123: the tail text, and the generator ends.
ProcessTail ==
    /\ tok_pc = "walk"
    /\ stack # <<>>
    /\ Top.phase > Len(tree.children[Top.node])
    /\ Segment(Top.node, TRUE, tree.tail[Top.node])
    /\ stack' = SubSeq(stack, 1, Len(stack) - 1)
    /\ UNCHANGED <<tagset, replace_html_tags, call, todo, X, y, tok_pc, arg,
                   tree, ret, resets, prev_tag>>
    /\ UNCHANGED notTok

\* tokenize_single, lines 92-95: the generator is exhausted.
Return ==
    /\ tok_pc = "walk"
    /\ stack = <<>>
    /\ ret' = tokenize_single_result(out)
    /\ tok_pc' = "ret"
    /\ UNCHANGED <<tagset, replace_html_tags, enc_tag, call, todo, X, y, arg,
                   tree, stack, out, resets, prev_tag, log>>
    /\ UNCHANGED notTok

\* The caller receives the result, tokenize() appends it (lines 100-102),
\* and the locals of the finished call are gone.
Deliver ==
    /\ tok_pc = "ret"
    /\ tok_pc' = "idle"
    /\ IF call = "tokenize"
       THEN /\ X' = Append(X, ret.tokens)
            /\ y' = Append(y, ret.tags)
            /\ todo' = todo - 1
            /\ call' = call
       ELSE /\ call' = "none"
            /\ UNCHANGED <<todo, X, y>>
    /\ arg' = TreeEmpty
    /\ tree' = TreeEmpty
    /\ out' = <<>>
    /\ ret' = NoResult
    /\ resets' = 0
    /\ prev_tag' = IobEncoder_reset
    /\ log' = <<>>
    /\ UNCHANGED <<tagset, replace_html_tags, enc_tag, stack>>
    /\ UNCHANGED notTok

TokNext ==
    \/ TokenizeSingle
    \/ Tokenize
    \/ TokenizeNext
    \/ TokenizeReturn
    \/ ProcessHead
    \/ ProcessChild
    \/ ProcessTail
    \/ Return
    \/ Deliver

(***************************************************************************)
(* HtmlFeatureExtractor.  A feature value is a record [t, s]: its Python   *)
(* type and its text.  A feature dictionary is a function from keys to     *)
(* values; a key is a sequence of characters.                              *)
(***************************************************************************)
Str(s) == [t |-> "str", s |-> s]
Bool(b) == [t |-> "bool", s |-> IF b THEN "True" ELSE "False"]

K_tok == <<"t", "o", "k">>
K_first == <<"f", "i", "r", "s", "t">>
K_idx == <<"_", "i", "d", "x">>
K_prev == <<"p", "r", "e", "v">>
K_pos == <<"_", "p", "o", "s">>
K_long == <<"l", "o", "n", "g">>

EmptyDict == [k \in {} |-> Str("")]

\* dict.update: the entries of b, and those of a that b does not replace.
DictUpdate(a, b) ==
    [k \in DOMAIN a \cup DOMAIN b |-> IF k \in DOMAIN b THEN b[k] ELSE a[k]]

\* d[k] = v
DictSet(d, k, v) == [j \in DOMAIN d \cup {k} |-> IF j = k THEN v ELSE d[j]]

\* k.startswith('_')
startswith_underscore(k) == k # <<>> /\ k[1] = "_"

\* HtmlToken.token
token(ht) == ht.tokens[ht.index + 1]

\* The HtmlTokens of one text segment.
SegmentTokens(words) ==
    [i \in 1 .. Len(words) |->
        [index |-> i - 1, tokens |-> words, elem |-> 1, is_tail |-> FALSE]]

\* The token-level feature functions a caller may configure.
TokenFeature(name, ht) ==
    CASE name = "current_token" -> (K_tok :> Str(token(ht)))
      [] name = "token_shape" ->
            (K_idx :> Str(ToString(ht.index)))
            @@ (K_first :> Bool(ht.index = 0))

RECURSIVE CombinedFeatures(_, _)
\* CombinedFeatures(*token_features)(ht): the union of the functions'
\* dictionaries, a later function replacing an earlier one's key.
CombinedFeatures(names, ht) ==
    IF names = <<>> THEN EmptyDict
    ELSE DictUpdate(CombinedFeatures(SubSeq(names, 1, Len(names) - 1), ht),
                    TokenFeature(names[Len(names)], ht))

\* The global feature functions a caller may configure: each changes the
\* dictionaries of token_data in place.
GlobalFeature(name, fds) ==
    CASE name = "previous_token" ->
            [i \in 1 .. Len(fds) |->
                DictSet(DictSet(fds[i], K_pos, Str(ToString(i - 1))),
                        K_prev,
                        IF i > 1 /\ K_tok \in DOMAIN fds[i - 1]
                        THEN fds[i - 1][K_tok] ELSE Str("?"))]
      [] name = "long_block" ->
            [i \in 1 .. Len(fds) |->
                DictSet(fds[i], K_long,
                        Bool(\E j \in 1 .. Len(fds) :
                                /\ K_idx \in DOMAIN fds[j]
                                /\ fds[j][K_idx] = Str("1")))]

RECURSIVE ApplyGlobalFeatures(_, _)
\* for feat in self.global_features: feat(token_data)
ApplyGlobalFeatures(names, fds) ==
    IF names = <<>> THEN fds
    ELSE ApplyGlobalFeatures(Tail(names), GlobalFeature(Head(names), fds))

\* The dict comprehension of transform_single without its condition.
public_entries_keep_all(fd) == fd

\* {k: fd[k] for k in fd if not k.startswith('_')}
public_entries(fd) ==
    [k \in {j \in DOMAIN fd : ~startswith_underscore(j)} |-> fd[k]]

\* HtmlFeatureExtractor.transform_single
transform_single(html_tokens, tfs, gfs) ==
    LET token_data ==
            ApplyGlobalFeatures(gfs,
                [i \in 1 .. Len(html_tokens) |-> CombinedFeatures(tfs, html_tokens[i])])
    IN  [i \in 1 .. Len(token_data) |-> public_entries(token_data[i])]

\* HtmlFeatureExtractor.transform
transform(htmltoken_lists, tfs, gfs) ==
    [d \in 1 .. Len(htmltoken_lists) |-> transform_single(htmltoken_lists[d], tfs, gfs)]

\* dict.items() of every dictionary of a document, chained.
DocItems(doc) ==
    UNION { { <<k, doc[i][k]>> : k \in DOMAIN doc[i] } : i \in 1 .. Len(doc) }

\* Counter.update(iterable): one more for each element.
CounterUpdate(cnt, elems) ==
    [e \in DOMAIN cnt \cup elems |->
        (IF e \in DOMAIN cnt THEN cnt[e] ELSE 0) + (IF e \in elems THEN 1 ELSE 0)]

RECURSIVE CountOccurrences(_, _)
\* A frequency that counts every occurrence of a pair in a document.
CountOccurrences(doc, cnt) ==
    IF doc = <<>> THEN cnt
    ELSE CountOccurrences(Tail(doc),
             CounterUpdate(cnt, { <<k, Head(doc)[k]>> : k \in DOMAIN Head(doc) }))

RECURSIVE _document_frequency_occurrences(_)
_document_frequency_occurrences(XX) ==
    IF XX = <<>> THEN [e \in {} |-> 0]
    ELSE CountOccurrences(XX[Len(XX)],
             _document_frequency_occurrences(SubSeq(XX, 1, Len(XX) - 1)))

RECURSIVE _document_frequency(_)
\* HtmlFeatureExtractor._document_frequency
_document_frequency(XX) ==
    IF XX = <<>> THEN [e \in {} |-> 0]
    ELSE CounterUpdate(_document_frequency(SubSeq(XX, 1, Len(XX) - 1)),
                       DocItems(XX[Len(XX)]))

\* HtmlFeatureExtractor._pruned
_pruned(XX, low) ==
    IF low = None \/ low[1] <= 1 THEN XX
    ELSE LET cnt == _document_frequency(XX)
             keep == {e \in DOMAIN cnt : cnt[e] >= low[1]}
         IN  [d \in 1 .. Len(XX) |->
                [i \in 1 .. Len(XX[d]) |->
                    [k \in {j \in DOMAIN XX[d][i] : <<j, XX[d][i][j]>> \in keep}
                        |-> XX[d][i][k]]]]

\* HtmlFeatureExtractor.fit_transform
fit_transform(htmltoken_lists, tfs, gfs, low) ==
    _pruned([d \in 1 .. Len(htmltoken_lists) |->
                transform_single(htmltoken_lists[d], tfs, gfs)], low)

(***************************************************************************)
(* prepare_wapiti_template.  A template, a line and a feature name are     *)
(* sequences of characters.  The value of the function is a record: err is *)
(* "" and text the rewritten template, or err names the exception raised.  *)
(***************************************************************************)
NL == "\n"

IsSpace(c) == c \in {" ", "\t"}
IsDigit(c) == c \in {"0", "1", "2", "3", "4", "5", "6", "7", "8", "9"}

\* (?P<macro>%[xXtTmM])
MacroLetters == {"x", "X", "t", "T", "m", "M"}

\* str.isdigit()
isdigit(cs) == cs # <<>> /\ \A i \in 1 .. Len(cs) : IsDigit(cs[i])

RECURSIVE IntToChars(_)
\* str(n) of an integer n >= 0
IntToChars(n) ==
    IF n < 10 THEN <<ToString(n)>>
    ELSE IntToChars(n \div 10) \o <<ToString(n % 10)>>

RECURSIVE SkipSpaces(_, _)
\* \s* from position i: the first position that holds no whitespace.
SkipSpaces(s, i) ==
    IF i <= Len(s) /\ IsSpace(s[i]) THEN SkipSpaces(s, i + 1) ELSE i

RECURSIVE SkipDigits(_, _)
\* \d* from position i
SkipDigits(s, i) ==
    IF i <= Len(s) /\ IsDigit(s[i]) THEN SkipDigits(s, i + 1) ELSE i

RECURSIVE SkipColumn(_, _)
\* [^\],\s]* from position i
SkipColumn(s, i) ==
    IF i <= Len(s) /\ s[i] \notin {"]", ","} /\ ~IsSpace(s[i])
    THEN SkipColumn(s, i + 1) ELSE i

NoMatch == [ok |-> FALSE]

\* WAPITI_MACRO_PATTERN matched at position i of s: the groups and the
\* position of the match's last character.
MacroMatch(s, i) ==
    IF ~(i + 2 <= Len(s) /\ s[i] = "%" /\ s[i + 1] \in MacroLetters /\ s[i + 2] = "[")
    THEN NoMatch
    ELSE LET o1 == SkipSpaces(s, i + 3)
             o2 == IF o1 <= Len(s) /\ s[o1] = "-" THEN o1 + 1 ELSE o1
             o3 == SkipDigits(s, o2)
             c0 == SkipSpaces(s, o3)
             c1 == SkipSpaces(s, c0 + 1)
             c2 == SkipColumn(s, c1)
             r == SkipSpaces(s, c2)
         IN  IF /\ o3 > o2
                /\ c0 <= Len(s) /\ s[c0] = ","
                /\ c2 > c1
                /\ r <= Len(s) /\ s[r] \in {"]", ","}
             THEN [ok |-> TRUE,
                   macro |-> SubSeq(s, i, i + 1),
                   offset |-> SubSeq(s, o1, o3 - 1),
                   column |-> SubSeq(s, c1, c2 - 1),
                   rest |-> <<s[r]>>,
                   last |-> r]
             ELSE NoMatch

\* repl(m) of a macro whose column is a number or a known name.
repl(m, vocabulary) ==
    m.macro \o <<"[">> \o m.offset \o <<",">>
    \o (IF isdigit(m.column) THEN m.column ELSE IntToChars(vocabulary[m.column]))
    \o m.rest

RECURSIVE MacroSub(_, _, _)
\* WAPITI_MACRO_PATTERN.sub(repl, line) from position i on.
MacroSub(s, i, vocabulary) ==
    IF i > Len(s) THEN [err |-> "", text |-> <<>>]
    ELSE LET m == MacroMatch(s, i)
         IN  IF ~m.ok
             THEN LET t == MacroSub(s, i + 1, vocabulary)
                  IN  [t EXCEPT !.text = <<s[i]>> \o t.text]
             ELSE IF ~isdigit(m.column) /\ m.column \notin DOMAIN vocabulary
             THEN [err |-> "KeyError", text |-> <<>>]
             ELSE LET t == MacroSub(s, m.last + 1, vocabulary)
                  IN  [t EXCEPT !.text = repl(m, vocabulary) \o t.text]

\* A comment test that does not strip the line first.
_wapiti_line_is_comment_no_strip(line) == line # <<>> /\ line[1] = "#"

\* _wapiti_line_is_comment: line.strip().startswith('#')
_wapiti_line_is_comment(line) ==
    LET i == SkipSpaces(line, 1) IN i <= Len(line) /\ line[i] = "#"

RECURSIVE splitlines(_)
\* str.splitlines(): the lines without their terminators; a terminator at
\* the very end opens no further line.
splitlines(s) ==
    IF s = <<>> THEN <<>>
    ELSE IF \E i \in 1 .. Len(s) : s[i] = NL
    THEN LET i == CHOOSE j \in 1 .. Len(s) :
                     s[j] = NL /\ \A k \in 1 .. j - 1 : s[k] # NL
         IN  <<SubSeq(s, 1, i - 1)>> \o splitlines(SubSeq(s, i + 1, Len(s)))
    ELSE <<s>>

RECURSIVE join(_, _)
\* sep.join(lines)
join(sep, lines) ==
    IF lines = <<>> THEN <<>>
    ELSE IF Len(lines) = 1 THEN lines[1]
    ELSE lines[1] \o sep \o join(sep, Tail(lines))

\* prepare_wapiti_template(template, vocabulary)
prepare_wapiti_template(template, vocabulary) ==
    LET lines == splitlines(template)
        done == [i \in 1 .. Len(lines) |->
                    IF ~_wapiti_line_is_comment(lines[i])
                    THEN MacroSub(lines[i], 1, vocabulary)
                    ELSE [err |-> "", text |-> lines[i]]]
    IN  IF \E i \in 1 .. Len(lines) : done[i].err # ""
        THEN [err |-> "KeyError", text |-> <<>>]
        ELSE [err |-> "", text |-> join(<<NL>>, [i \in 1 .. Len(lines) |-> done[i].text])]

(***************************************************************************)
(* WapitiFeatureEncoder                                                    *)
(***************************************************************************)
K_token == <<"t", "o", "k", "e", "n">>
K_tag == <<"t", "a", "g">>
K_a == <<"a">>
K_b == <<"b">>

Range(seq) == {seq[i] : i \in 1 .. Len(seq)}

\* The orders in which the elements of a set may be iterated.
Orders(S) ==
    {p \in [1 .. Cardinality(S) -> S] : \A e \in S : \E i \in DOMAIN p : p[i] = e}

\* get_combined_keys(feature_dicts): the keys of all the dictionaries.
get_combined_keys(feature_dicts) ==
    UNION {DOMAIN feature_dicts[i] : i \in 1 .. Len(feature_dicts)}

RECURSIVE partial_fit_loop(_, _, _)
\* for feature_dicts in X: keys = (keys | get_combined_keys(...)) - move_to_front
partial_fit_loop(keys, XX, mtf) ==
    IF XX = <<>> THEN keys
    ELSE partial_fit_loop((keys \cup get_combined_keys(Head(XX))) \ Range(mtf),
                          Tail(XX), mtf)

\* The set `keys` of partial_fit when its loop has ended.
partial_fit_keys(names, XX, mtf) ==
    partial_fit_loop(IF names = None THEN {} ELSE Range(names[1]), XX, mtf)

\* dict((f, i) for i, f in enumerate(names)): a later pair replaces an
\* earlier one with the same name.
enumerate_dict(names) ==
    [f \in Range(names) |->
        (CHOOSE i \in 1 .. Len(names) :
            names[i] = f /\ \A j \in i + 1 .. Len(names) : names[j] # f) - 1]

\* tostr(val) of a value, and of None for a key the dictionary lacks.
tostr(val) ==
    IF val = None THEN "None"
    ELSE IF val[1].t = "bool" THEN (IF val[1].s = "True" THEN "1" ELSE "0")
    ELSE val[1].s

\* dct.get(key)
get(dct, key) == IF key \in DOMAIN dct THEN Some(dct[key]) ELSE None

\* WapitiFeatureEncoder.transform_single with feature_names_ a tuple.
transform_rows(feature_dicts, names) ==
    [r \in 1 .. Len(feature_dicts) |->
        join(<<" ">>, [c \in 1 .. Len(names) |-> <<tostr(get(feature_dicts[r], names[c]))>>])]

\* WapitiFeatureEncoder.transform_single: iterating None raises TypeError,
\* which an empty list of dictionaries never gets to.
encoder_transform_single(feature_dicts, names) ==
    IF names = None
    THEN (IF feature_dicts = <<>> THEN [err |-> "", rows |-> <<>>]
          ELSE [err |-> "TypeError", rows |-> <<>>])
    ELSE [err |-> "", rows |-> transform_rows(feature_dicts, names[1])]

\* WapitiFeatureEncoder.transform
encoder_transform(XX, names) ==
    IF \E d \in 1 .. Len(XX) : encoder_transform_single(XX[d], names).err # ""
    THEN [err |-> "TypeError", rows |-> <<>>]
    ELSE [err |-> "", rows |-> [d \in 1 .. Len(XX) |-> encoder_transform_single(XX[d], names).rows]]

\* WapitiFeatureEncoder.prepare_template: indexing None raises TypeError,
\* which a template without a symbolic column never gets to.
prepare_template(template, vocabulary) ==
    IF vocabulary = None
    THEN LET r == prepare_wapiti_template(template, [f \in {} |-> 0])
         IN  IF r.err # "" THEN [err |-> "TypeError", text |-> <<>>] ELSE r
    ELSE prepare_wapiti_template(template, vocabulary[1])

FeatChars == <<"f", "e", "a", "t", ":">>

\* '\n# Unigrams for all custom features'
UnigramHeader ==
    <<NL, "#", " ", "U", "n", "i", "g", "r", "a", "m", "s", " ", "f", "o", "r",
      " ", "a", "l", "l", " ", "c", "u", "s", "t", "o", "m", " ", "f", "e",
      "a", "t", "u", "r", "e", "s">>

\* '{scope}feat:{name}=%x[0,{col}]'
unigram_line(scope, name, col) ==
    <<scope>> \o FeatChars \o name \o <<"=", "%", "x", "[", "0", ",">>
    \o IntToChars(col) \o <<"]">>

\* WapitiFeatureEncoder.unigram_features_template(scope); enumerating None
\* raises TypeError.
unigram_features_template(scope, names) ==
    IF names = None THEN [err |-> "TypeError", text |-> <<>>]
    ELSE [err |-> "",
          text |-> join(<<NL>>,
                        <<UnigramHeader>>
                        \o [c \in 1 .. Len(names[1]) |->
                               unigram_line(scope, names[1][c], c - 1)])
                   \o <<NL>>]

\* The documents (lists of feature dicts) a caller may pass.
DocTheDog ==
    << (K_token :> Str("the")) @@ (K_tag :> Str("DT")),
       (K_token :> Str("dog")) @@ (K_tag :> Str("NN")) >>
DocA == << (K_token :> Str("x")) @@ (K_a :> Bool(TRUE)) >>
DocB == << (K_b :> Str("1")), (K_a :> Bool(FALSE)) >>

EncDocs == { <<>>, DocTheDog, DocA, DocB }

EncCorpora == UNION { [1 .. n -> EncDocs] : n \in 0 .. MaxFitDocs }

\* %x[0,<column>]
MacroOf(column) == <<"%", "x", "[", "0", ",">> \o column \o <<"]">>

EncTemplates == { MacroOf(n) : n \in {K_token, K_tag, K_a, K_b} }

\* WapitiFeatureEncoder.__init__
EncInit ==
    /\ move_to_front \in { <<K_token>>, <<K_token, K_tag>> }
    /\ feature_names_ = None
    /\ vocabulary_ = None
    /\ enc_op = "none"
    /\ enc_in = <<>>
    /\ enc_out = <<>>

\* No WapitiFeatureEncoder is in use.
EncIdle ==
    /\ move_to_front = <<K_token>>
    /\ feature_names_ = None
    /\ vocabulary_ = None
    /\ enc_op = "none"
    /\ enc_in = <<>>
    /\ enc_out = <<>>

\* partial_fit(X), lines 222-230; tuple(keys) takes the set's elements in
\* the order the set iterates them, which the language leaves open.
partial_fit(op) ==
    /\ enc_op = "none"
    /\ \E XX \in EncCorpora :
          /\ enc_in' = XX
          /\ \E order \in Orders(partial_fit_keys(feature_names_, XX, move_to_front)) :
                /\ feature_names_' = Some(move_to_front \o order)
                /\ vocabulary_' = Some(enumerate_dict(move_to_front \o order))
    /\ enc_op' = op
    /\ enc_out' = <<>>
    /\ UNCHANGED move_to_front
    /\ UNCHANGED notEnc

\* fit(X): return self.partial_fit(X)
WapitiFit == partial_fit("fit")

PartialFit == partial_fit("partial_fit")

\* reset()
Reset ==
    /\ enc_op = "none"
    /\ feature_names_' = None
    /\ enc_op' = "reset"
    /\ enc_in' = <<>>
    /\ enc_out' = <<>>
    /\ UNCHANGED <<move_to_front, vocabulary_>>
    /\ UNCHANGED notEnc

\* transform_single(feature_dicts)
EncTransformSingle ==
    /\ enc_op = "none"
    /\ \E doc \in EncDocs :
          /\ enc_in' = doc
          /\ enc_out' = encoder_transform_single(doc, feature_names_)
    /\ enc_op' = "transform_single"
    /\ UNCHANGED <<move_to_front, feature_names_, vocabulary_>>
    /\ UNCHANGED notEnc

\* transform(X)
EncTransform ==
    /\ enc_op = "none"
    /\ \E XX \in EncCorpora :
          /\ enc_in' = XX
          /\ enc_out' = encoder_transform(XX, feature_names_)
    /\ enc_op' = "transform"
    /\ UNCHANGED <<move_to_front, feature_names_, vocabulary_>>
    /\ UNCHANGED notEnc

\* prepare_template(template), the template one of TT
PrepareTemplate(TT) ==
    /\ enc_op = "none"
    /\ \E template \in TT :
          /\ enc_in' = template
          /\ enc_out' = prepare_template(template, vocabulary_)
    /\ enc_op' = "prepare_template"
    /\ UNCHANGED <<move_to_front, feature_names_, vocabulary_>>
    /\ UNCHANGED notEnc

\* prepare_template called on the template the last call returned
PrepareTemplateAgain ==
    /\ enc_op = "prepare_template"
    /\ enc_out.err = ""
    /\ enc_in' = enc_out.text
    /\ enc_out' = prepare_template(enc_out.text, vocabulary_)
    /\ enc_op' = "prepare_template_again"
    /\ UNCHANGED <<move_to_front, feature_names_, vocabulary_>>
    /\ UNCHANGED notEnc

\* unigram_features_template(scope)
UnigramFeaturesTemplate ==
    /\ enc_op = "none"
    /\ \E scope \in {"u", "*"} :
          /\ enc_in' = scope
          /\ enc_out' = unigram_features_template(scope, feature_names_)
    /\ enc_op' = "unigram_features_template"
    /\ UNCHANGED <<move_to_front, feature_names_, vocabulary_>>
    /\ UNCHANGED notEnc

\* The caller is done with the returned value.
EncDiscard ==
    /\ enc_op # "none"
    /\ enc_op' = "none"
    /\ enc_in' = <<>>
    /\ enc_out' = <<>>
    /\ UNCHANGED <<move_to_front, feature_names_, vocabulary_>>
    /\ UNCHANGED notEnc

EncNext ==
    \/ WapitiFit
    \/ PartialFit
    \/ Reset
    \/ EncTransformSingle
    \/ EncTransform
    \/ PrepareTemplate(EncTemplates)
    \/ UnigramFeaturesTemplate
    \/ EncDiscard

TokenFeatureLists ==
    { <<>>, <<"current_token">>, <<"current_token", "token_shape">> }

GlobalFeatureLists ==
    { <<>>, <<"previous_token">>, <<"previous_token", "long_block">> }

MinDfs == {None} \cup {Some(n) : n \in 0 .. MaxDocs + 1}

\* The documents (lists of HtmlTokens) a caller may pass.
FeatDocs ==
    { <<>>,
      SegmentTokens(<<"hello", "John">>),
      SegmentTokens(<<"John">>),
      SegmentTokens(<<"Mary", "John", "Mary">>),
      SegmentTokens(<<"hello">>) \o SegmentTokens(<<"Mary">>) }

Corpora == UNION { [1 .. n -> FeatDocs] : n \in 0 .. MaxDocs }

\* HtmlFeatureExtractor.__init__
FeatInit ==
    /\ token_features \in TokenFeatureLists
    /\ global_features \in GlobalFeatureLists
    /\ min_df \in MinDfs
    /\ feat_op = "none"
    /\ feat_in = <<>>
    /\ feat_out = <<>>

\* No HtmlFeatureExtractor is in use.
FeatIdle ==
    /\ token_features = <<>>
    /\ global_features = <<>>
    /\ min_df = Some(1)
    /\ feat_op = "none"
    /\ feat_in = <<>>
    /\ feat_out = <<>>

\* No WapitiCRF is in use.
CrfIdle ==
    /\ train_args = [type |-> "tuple", items |-> <<>>]
    /\ feature_template = <<>>
    /\ unlink_temp = TRUE
    /\ dev_size = 0
    /\ X_dev = None
    /\ y_dev = None
    /\ out_dev = None
    /\ dev_fn = None
    /\ to_unlink = <<>>
    /\ tempdir = {}
    /\ crf_pc = "idle"
    /\ crf_exc = ""

\* No HtmlTokenizer is in use.
TokIdle ==
    /\ tagset = None
    /\ replace_html_tags = None
    /\ enc_tag = IobEncoder_reset
    /\ call = "none"
    /\ todo = 0
    /\ X = <<>>
    /\ y = <<>>
    /\ tok_pc = "idle"
    /\ arg = TreeEmpty
    /\ tree = TreeEmpty
    /\ stack = <<>>
    /\ out = <<>>
    /\ ret = NoResult
    /\ resets = 0
    /\ prev_tag = IobEncoder_reset
    /\ log = <<>>

\* transform_single(html_tokens)
TransformSingle ==
    /\ feat_op = "none"
    /\ \E doc \in FeatDocs :
          /\ feat_in' = <<doc>>
          /\ feat_out' = <<transform_single(doc, token_features, global_features)>>
    /\ feat_op' = "transform_single"
    /\ UNCHANGED <<token_features, global_features, min_df>>
    /\ UNCHANGED notFeat

\* transform(htmltoken_lists)
Transform ==
    /\ feat_op = "none"
    /\ \E corpus \in Corpora :
          /\ feat_in' = corpus
          /\ feat_out' = transform(corpus, token_features, global_features)
    /\ feat_op' = "transform"
    /\ UNCHANGED <<token_features, global_features, min_df>>
    /\ UNCHANGED notFeat

\* fit_transform(htmltoken_lists)
FitTransform ==
    /\ feat_op = "none"
    /\ \E corpus \in Corpora :
          /\ feat_in' = corpus
          /\ feat_out' = fit_transform(corpus, token_features, global_features, min_df)
    /\ feat_op' = "fit_transform"
    /\ UNCHANGED <<token_features, global_features, min_df>>
    /\ UNCHANGED notFeat

\* fit(htmltoken_lists): fit_transform, its value dropped; self is returned.
Fit ==
    /\ feat_op = "none"
    /\ \E corpus \in Corpora : feat_in' = corpus
    /\ feat_op' = "fit"
    /\ feat_out' = <<>>
    /\ UNCHANGED <<token_features, global_features, min_df>>
    /\ UNCHANGED notFeat

\* The caller is done with the returned value; the extractor, which keeps
\* nothing of a call, is ready for the next one.
FeatDiscard ==
    /\ feat_op # "none"
    /\ feat_op' = "none"
    /\ feat_in' = <<>>
    /\ feat_out' = <<>>
    /\ UNCHANGED <<token_features, global_features, min_df>>
    /\ UNCHANGED notFeat

FeatNext ==
    \/ TransformSingle
    \/ Transform
    \/ FitTransform
    \/ Fit
    \/ FeatDiscard

(***************************************************************************)
(* Specifications: one per component, the other components not in use.     *)
(***************************************************************************)
InitTok == TokInit /\ FeatIdle /\ EncIdle /\ CrfIdle

SpecTok == InitTok /\ [][TokNext]_vars

InitFeat == FeatInit /\ TokIdle /\ EncIdle /\ CrfIdle

SpecFeat == InitFeat /\ [][FeatNext]_vars

InitEnc == EncInit /\ TokIdle /\ FeatIdle /\ CrfIdle

SpecEnc == InitEnc /\ [][EncNext]_vars

\* The templates a caller may pass: up to MaxLines lines, each a prefix and
\* a body, with or without a line terminator at the end.
LinePrefixes == { <<>>, <<"#", " ">>, <<" ", "#">>, <<"*", ":">> }

LineBodies ==
    { <<>>,
      MacroOf(K_tag),
      <<"%", "x", "[", " ", "-", "1", ",", " ">> \o K_tag \o <<" ", "]">>,
      <<"%", "m", "[", "0", ",">> \o K_token \o <<",", "\"", ".", "\"", "]">>,
      MacroOf(<<"1">>),
      <<"%", "X", "[", " ", "0", " ", ",", " ", "1", " ", "]">>,
      MacroOf(<<"z", "z">>),
      <<"%", "q", "[", "0", ",">> \o K_tag \o <<"]">> }

TemplateLines == { pre \o body : pre \in LinePrefixes, body \in LineBodies }

Templates ==
    { join(<<NL>>, lines) \o last :
        lines \in UNION { [1 .. n -> TemplateLines] : n \in 0 .. MaxLines },
        last \in { <<>>, <<NL>> } }

\* The encoder of the docstring of prepare_template: fitted on the tokens
\* "the" and "dog" with move_to_front = ['token', 'tag'].
TplInit ==
    /\ move_to_front = <<K_token, K_tag>>
    /\ feature_names_ = Some(<<K_token, K_tag>>)
    /\ vocabulary_ = Some(enumerate_dict(<<K_token, K_tag>>))
    /\ enc_op = "none"
    /\ enc_in = <<>>
    /\ enc_out = <<>>

InitTpl == TplInit /\ TokIdle /\ FeatIdle /\ CrfIdle

TplNext ==
    \/ PrepareTemplate(Templates)
    \/ PrepareTemplateAgain
    \/ EncDiscard

SpecTpl == InitTpl /\ [][TplNext]_vars

(***************************************************************************)
(* WapitiCRF.fit and the temporary files it creates.                       *)
(***************************************************************************)
\* The names tempfile gives the files: each call makes a fresh one.
TrainFile == "wapiti-data-1.txt"
DevFile == "wapiti-data-2.txt"
OutDevFile == "wapiti-dev-data.txt"
TemplateFile == "feature-template-.txt"

\* feature_template's default: "# Label unigrams and bigrams:\n*\n"
DefaultTemplate ==
    <<"#", " ", "L", "a", "b", "e", "l", " ", "u", "n", "i", "g", "r", "a",
      "m", "s", " ", "a", "n", "d", " ", "b", "i", "g", "r", "a", "m", "s",
      ":", NL, "*", NL>>

CrfTemplates == { DefaultTemplate, MacroOf(K_token), MacroOf(K_tag) }

\* The training data a caller may pass, and its development data.
CrfCorpora == { <<>>, <<DocTheDog>>, <<DocA, DocB>> }
XDevArgs == { None, Some(<<>>), Some(<<DocTheDog>>) }
YDevArgs == { None, Some(<<>>), Some(<< <<"O", "O">> >>) }
OutDevArgs == { None, Some("out.txt") }

\* One label per token of X.
LabelsOf(XX) == [i \in 1 .. Len(XX) |-> [j \in 1 .. Len(XX[i]) |-> "O"]]

\* bool(v) of an optional list: None and the empty list are false.
truthy(opt) == opt # None /\ Len(opt[1]) > 0

\* seq[:n]
slice_to(seq, n) == SubSeq(seq, 1, IF n < Len(seq) THEN n ELSE Len(seq))

\* WapitiCRF.__init__ with the default feature_encoder, WapitiFeatureEncoder()
CrfInit ==
    /\ train_args \in { [type |-> "tuple", items |-> <<>>],
                        [type |-> "list", items |-> <<>>] }
    /\ feature_template \in CrfTemplates
    /\ unlink_temp \in BOOLEAN
    /\ dev_size \in 0 .. MaxDevSize
    /\ X_dev = None
    /\ y_dev = None
    /\ out_dev = None
    /\ dev_fn = None
    /\ to_unlink = <<>>
    /\ tempdir = {}
    /\ crf_pc = "idle"
    /\ crf_exc = ""
    /\ EncIdle

\* What a step of fit() after its first lines leaves alone.
crfConfig == <<train_args, feature_template, unlink_temp, dev_size>>

\* fit(X, y, X_dev, y_dev, out_dev), lines 79-92: the encoder is reset and
\* fitted, the development data are checked or cut off the training data.
CrfFit ==
    /\ crf_pc = "idle"
    /\ \E XX \in CrfCorpora, xd \in XDevArgs, yd \in YDevArgs, od \in OutDevArgs :
          /\ enc_in' = XX
          /\ \E order \in Orders(partial_fit_keys(None, XX, move_to_front)) :
                /\ feature_names_' = Some(move_to_front \o order)
                /\ vocabulary_' = Some(enumerate_dict(move_to_front \o order))
          /\ out_dev' = od
          /\ IF truthy(xd) \/ truthy(yd) \/ od # None
             THEN /\ X_dev' = xd
                  /\ y_dev' = yd
                  /\ IF xd = None \/ yd = None
                     THEN crf_exc' = "ValueError" /\ crf_pc' = "raised"
                     ELSE crf_exc' = "" /\ crf_pc' = "train_file"
             ELSE /\ IF dev_size > 0
                     THEN /\ X_dev' = Some(slice_to(XX, dev_size))
                          /\ y_dev' = Some(slice_to(LabelsOf(XX), dev_size))
                     ELSE X_dev' = xd /\ y_dev' = yd
                  /\ crf_exc' = ""
                  /\ crf_pc' = "train_file"
    /\ enc_op' = "fit"
    /\ enc_out' = <<>>
    /\ dev_fn' = None
    /\ to_unlink' = <<>>
    /\ UNCHANGED <<move_to_front, tempdir, crfConfig>>
    /\ UNCHANGED notCrf

\* train_fn = self._create_wapiti_data_file(X, y); to_unlink.append(train_fn)
\* NamedTemporaryFile(delete=False) creates the file; writing the sequences
\* into it succeeds or raises, and when it raises no name is returned.
CreateTrainFile ==
    /\ crf_pc = "train_file"
    /\ tempdir' = tempdir \cup {TrainFile}
    /\ \E written \in BOOLEAN :
          IF written
          THEN /\ to_unlink' = Append(to_unlink, TrainFile)
               /\ crf_pc' = "dev_file"
               /\ crf_exc' = ""
          ELSE /\ to_unlink' = to_unlink
               /\ crf_pc' = "finally"
               /\ crf_exc' = "IOError"
    /\ UNCHANGED <<X_dev, y_dev, out_dev, dev_fn, crfConfig>>
    /\ UNCHANGED <<encVars, notCrf>>

\* if X_dev is not None: dev_fn = self._create_wapiti_data_file(X_dev, y_dev)
\* The name is kept in dev_fn and is not appended to to_unlink.
CreateDevFile ==
    /\ crf_pc = "dev_file"
    /\ IF X_dev = None
       THEN /\ crf_pc' = "template_file"
            /\ UNCHANGED <<tempdir, dev_fn, crf_exc>>
       ELSE /\ tempdir' = tempdir \cup {DevFile}
            /\ \E written \in BOOLEAN :
                  IF written
                  THEN /\ dev_fn' = Some(DevFile)
                       /\ crf_pc' = "out_dev"
                       /\ crf_exc' = ""
                  ELSE /\ dev_fn' = dev_fn
                       /\ crf_pc' = "finally"
                       /\ crf_exc' = "IOError"
    /\ UNCHANGED <<X_dev, y_dev, out_dev, to_unlink, crfConfig>>
    /\ UNCHANGED <<encVars, notCrf>>

\* if out_dev is None: _, out_dev = tempfile.mkstemp(...);
\*                     to_unlink.append(out_dev)
\* mkstemp creates the file or raises.
MakeOutDev ==
    /\ crf_pc = "out_dev"
    /\ IF out_dev # None
       THEN /\ crf_pc' = "template_file"
            /\ UNCHANGED <<tempdir, out_dev, to_unlink, crf_exc>>
       ELSE \E made \in BOOLEAN :
               IF made
               THEN /\ tempdir' = tempdir \cup {OutDevFile}
                    /\ out_dev' = Some(OutDevFile)
                    /\ to_unlink' = Append(to_unlink, OutDevFile)
                    /\ crf_pc' = "template_file"
                    /\ crf_exc' = ""
               ELSE /\ crf_pc' = "finally"
                    /\ crf_exc' = "IOError"
                    /\ UNCHANGED <<tempdir, out_dev, to_unlink>>
    /\ UNCHANGED <<X_dev, y_dev, dev_fn, crfConfig>>
    /\ UNCHANGED <<encVars, notCrf>>

\* template_fn = self._create_wapiti_feature_template_file();
\* to_unlink.append(template_fn)
\* The file is created first; prepare_template then raises for a template
\* with an unknown name, and writing succeeds or raises.
CreateTemplateFile ==
    /\ crf_pc = "template_file"
    /\ tempdir' = tempdir \cup {TemplateFile}
    /\ LET compiled == prepare_template(feature_template, vocabulary_)
       IN  IF compiled.err # ""
           THEN /\ to_unlink' = to_unlink
                /\ crf_pc' = "finally"
                /\ crf_exc' = compiled.err
           ELSE \E written \in BOOLEAN :
                   IF written
                   THEN /\ to_unlink' = Append(to_unlink, TemplateFile)
                        /\ crf_pc' = "train"
                        /\ crf_exc' = ""
                   ELSE /\ to_unlink' = to_unlink
                        /\ crf_pc' = "finally"
                        /\ crf_exc' = "IOError"
    /\ UNCHANGED <<X_dev, y_dev, out_dev, dev_fn, crfConfig>>
    /\ UNCHANGED <<encVars, notCrf>>

\* args = ['train', '--pattern', template_fn] + self.train_args ...;
\* self.run_wapiti(args)
\* A list and a tuple do not add up; the trainer succeeds or fails.
RunTrain ==
    /\ crf_pc = "train"
    /\ IF train_args.type # "list"
       THEN crf_pc' = "finally" /\ crf_exc' = "TypeError"
       ELSE \E trained \in BOOLEAN :
               IF trained
               THEN /\ crf_pc' = IF dev_fn # None THEN "label" ELSE "finally"
                    /\ crf_exc' = ""
               ELSE /\ crf_pc' = "finally"
                    /\ crf_exc' = "CalledProcessError"
    /\ UNCHANGED <<X_dev, y_dev, out_dev, dev_fn, to_unlink, tempdir, crfConfig>>
    /\ UNCHANGED <<encVars, notCrf>>

\* if dev_fn: self.run_wapiti(['label', ..., '--check', dev_fn, out_dev])
RunLabel ==
    /\ crf_pc = "label"
    /\ \E labelled \in BOOLEAN :
          /\ crf_pc' = "finally"
          /\ crf_exc' = IF labelled THEN "" ELSE "CalledProcessError"
    /\ UNCHANGED <<X_dev, y_dev, out_dev, dev_fn, to_unlink, tempdir, crfConfig>>
    /\ UNCHANGED <<encVars, notCrf>>

\* finally: if self.unlink_temp: for filename in to_unlink: os.unlink(filename)
\* and fit() returns, or goes on raising.
Finally ==
    /\ crf_pc = "finally"
    /\ tempdir' = IF unlink_temp THEN tempdir \ Range(to_unlink) ELSE tempdir
    /\ crf_pc' = IF crf_exc = "" THEN "returned" ELSE "raised"
    /\ UNCHANGED <<X_dev, y_dev, out_dev, dev_fn, to_unlink, crf_exc, crfConfig>>
    /\ UNCHANGED <<encVars, notCrf>>

CrfNext ==
    \/ CrfFit
    \/ CreateTrainFile
    \/ CreateDevFile
    \/ MakeOutDev
    \/ CreateTemplateFile
    \/ RunTrain
    \/ RunLabel
    \/ Finally

InitCrf == CrfInit /\ TokIdle /\ FeatIdle

SpecCrf == InitCrf /\ [][CrfNext]_vars

(***************************************************************************)
(* Properties of HtmlTokenizer.                                            *)
(***************************************************************************)
RECURSIVE DocOrder(_, _)
\* Document order of the text segments below node n: the element's head
\* text, each child subtree in child order, the element's tail text.
DocOrder(t, n) ==
    << [elem |-> n, is_tail |-> FALSE] >>
    \o Concat([i \in 1 .. Len(t.children[n]) |-> DocOrder(t, t.children[n][i])])
    \o << [elem |-> n, is_tail |-> TRUE] >>

SegText(t, s) == IF s.is_tail THEN t.tail[s.elem] ELSE t.text[s.elem]

RECURSIVE FreshPairs(_, _, _, _)
\* What a tokenizer that has never been used yields for the segments segs
\* of tree t, its encoder being in state tag.
FreshPairs(t, segs, ts, tag) ==
    IF segs = <<>> THEN <<>>
    ELSE LET s == Head(segs)
             r == IobEncode(_limit_tags(text_tokenize_func(SegText(t, s)), ts), tag)
         IN  [i \in 1 .. Len(r.tokens) |->
                 [tok |-> [index |-> i - 1, tokens |-> r.tokens,
                           elem |-> s.elem, is_tail |-> s.is_tail],
                  tag |-> r.tags[i]]]
             \o FreshPairs(t, Tail(segs), ts, r.tag)

FreshResult(t, ts) ==
    LET pairs == FreshPairs(t, DocOrder(t, 1), ts, IobEncoder_reset)
    IN  [tokens |-> [i \in 1 .. Len(pairs) |-> pairs[i].tok],
         tags |-> [i \in 1 .. Len(pairs) |-> pairs[i].tag]]

InsideTags == {"I-" \o v : v \in Labels}

\* C1: in every call of tokenize_single the encoder is reset exactly once,
\* before the first segment is encoded (the first segment starts outside any
\* entity) and never between two segments (each segment starts in the state
\* the previous one ended in); and the value returned for a tree is the one
\* a never-used tokenizer returns for it, whatever was tokenized before.
C1_ResetOncePerDocument ==
    tok_pc \in {"walk", "ret"} =>
        /\ resets = 1
        /\ log # <<>> => log[1].before = IobEncoder_reset
        /\ \A i \in 2 .. Len(log) : log[i].before = log[i - 1].after
        /\ log # <<>> => enc_tag = log[Len(log)].after
        /\ tok_pc = "ret" => ret = FreshResult(tree, tagset)

\* A document tokenized after one that ended inside an entity, and in which
\* a segment begins inside an entity that an earlier segment opened.
C1_Witness ==
    /\ tok_pc = "ret"
    /\ prev_tag # IobEncoder_reset
    /\ \E i \in 2 .. Len(log) :
          /\ log[i].tags # <<>>
          /\ log[i].tags[1] \in InsideTags
          /\ log[i].before \in InsideTags

\* The encoder's output for every segment, in the order of the calls.
EncoderOutput ==
    Concat([i \in 1 .. Len(log) |->
        [j \in 1 .. Len(log[i].tokens) |->
            [token |-> log[i].tokens[j], tag |-> log[i].tags[j],
             tokens |-> log[i].tokens, index |-> j - 1,
             elem |-> log[i].elem, is_tail |-> log[i].is_tail]]])

HasNoText(t) ==
    \A n \in Nodes(t) :
        /\ \A i \in 1 .. Len(t.text[n]) : t.text[n][i] \notin Words
        /\ \A i \in 1 .. Len(t.tail[n]) : t.tail[n][i] \notin Words

\* C2: tokenize_single returns two lists of equal length; the segments are
\* visited in document order; the i-th HtmlToken is the i-th token the
\* encoder produced and the i-th tag is the tag produced with it; every
\* HtmlToken has 0 <= index < len(tokens) and is_tail set exactly for a tail
\* segment; a tree without text gives two empty lists.
C2_AlignedDocumentOrder ==
    tok_pc = "ret" =>
        LET segs == DocOrder(tree, 1)
            enc == EncoderOutput
        IN  /\ Len(ret.tokens) = Len(ret.tags)
            /\ Len(log) = Len(segs)
            /\ \A i \in 1 .. Len(log) :
                  /\ log[i].elem = segs[i].elem
                  /\ log[i].is_tail = segs[i].is_tail
                  /\ log[i].raw = text_tokenize_func(SegText(tree, segs[i]))
            /\ Len(ret.tokens) = Len(enc)
            /\ \A k \in 1 .. Len(ret.tokens) :
                  LET ht == ret.tokens[k]
                  IN  /\ 0 <= ht.index
                      /\ ht.index < Len(ht.tokens)
                      /\ ht.tokens[ht.index + 1] = enc[k].token
                      /\ ht.tokens = enc[k].tokens
                      /\ ht.index = enc[k].index
                      /\ ht.elem = enc[k].elem
                      /\ ht.is_tail = enc[k].is_tail
                      /\ ret.tags[k] = enc[k].tag
            /\ HasNoText(tree) => ret = [tokens |-> <<>>, tags |-> <<>>]

\* A returned list with head tokens of a child, tail tokens, and a segment
\* of more than one token.
C2_Witness ==
    /\ tok_pc = "ret"
    /\ Len(ret.tokens) >= 4
    /\ \E k \in 1 .. Len(ret.tokens) :
          ret.tokens[k].is_tail /\ ret.tokens[k].index >= 1
    /\ \E k \in 1 .. Len(ret.tokens) :
          ~ret.tokens[k].is_tail /\ ret.tokens[k].elem # 1

DroppedMarkers(ts) ==
    {StartMarker(v) : v \in Labels \ ts} \cup {EndMarker(v) : v \in Labels \ ts}

RECURSIVE KeptExactly(_, _, _)
\* handed is raw without the tokens of `dropped`, everything else in order.
KeptExactly(raw, handed, dropped) ==
    IF raw = <<>> THEN handed = <<>>
    ELSE IF Head(raw) \in dropped THEN KeptExactly(Tail(raw), handed, dropped)
    ELSE /\ handed # <<>>
         /\ Head(handed) = Head(raw)
         /\ KeptExactly(Tail(raw), Tail(handed), dropped)

\* C3: with a tagset, the tokens handed to the encoder for a segment are the
\* raw tokens without the start and end markers of labels outside the
\* tagset, all other tokens kept in order; without a tagset, all raw tokens.
C3_LimitTags ==
    \A i \in 1 .. Len(log) :
        IF tagset = None
        THEN log[i].handed = log[i].raw
        ELSE KeptExactly(log[i].raw, log[i].handed, DroppedMarkers(tagset[1]))

\* A segment from which a start and an end marker were removed, and a
\* segment in which an allowed marker was kept.
C3_Witness ==
    /\ tagset # None
    /\ \E i \in 1 .. Len(log) :
          /\ \E j \in 1 .. Len(log[i].raw) : log[i].raw[j] = S_ORG
          /\ \E j \in 1 .. Len(log[i].raw) : log[i].raw[j] = E_ORG
          /\ \A j \in 1 .. Len(log[i].handed) : log[i].handed[j] \notin {S_ORG, E_ORG}
    /\ \E i \in 1 .. Len(log) :
          \E j \in 1 .. Len(log[i].handed) : log[i].handed[j] = S_PER

(***************************************************************************)
(* Properties of HtmlFeatureExtractor.                                     *)
(***************************************************************************)
\* C4: transform_single, transform and fit_transform return, for every
\* document passed, exactly one feature dictionary per token, and no
\* returned dictionary has a key that starts with the private marker.
C4_OneDictPerTokenNoPrivateKey ==
    feat_op \in {"transform_single", "transform", "fit_transform"} =>
        /\ Len(feat_out) = Len(feat_in)
        /\ \A d \in 1 .. Len(feat_in) :
              /\ Len(feat_out[d]) = Len(feat_in[d])
              /\ \A i \in 1 .. Len(feat_out[d]) :
                    \A k \in DOMAIN feat_out[d][i] : k[1] # "_"

\* fit_transform with a global function that wrote private keys, over a
\* corpus with tokens, returning a dictionary that is not empty.
C4_Witness ==
    /\ feat_op = "fit_transform"
    /\ global_features # <<>>
    /\ Len(global_features) = 2
    /\ min_df = Some(2)
    /\ \E d \in 1 .. Len(feat_out) :
          /\ Len(feat_out[d]) >= 2
          /\ \E i \in 1 .. Len(feat_out[d]) : DOMAIN feat_out[d][i] # {}

\* The extraction without pruning, and the documents of it in which the
\* pair (k, v) occurs.
Unpruned == transform(feat_in, token_features, global_features)

DocsWith(k, v) ==
    { d \in 1 .. Len(feat_in) :
        \E i \in 1 .. Len(Unpruned[d]) :
            k \in DOMAIN Unpruned[d][i] /\ Unpruned[d][i][k] = v }

\* C5: fit_transform with min_df > 1 keeps an entry k=v of an unpruned
\* dictionary exactly when the pair (k, v) occurs in at least min_df
\* documents, and adds nothing; with min_df absent or <= 1 it returns the
\* unpruned extraction; with min_df above the number of documents every
\* returned dictionary is empty.
C5_DocumentFrequencyPruning ==
    feat_op = "fit_transform" =>
        /\ (min_df = None \/ min_df[1] <= 1) => feat_out = Unpruned
        /\ (min_df # None /\ min_df[1] > 1) =>
              /\ Len(feat_out) = Len(Unpruned)
              /\ \A d \in 1 .. Len(Unpruned) :
                    /\ Len(feat_out[d]) = Len(Unpruned[d])
                    /\ \A i \in 1 .. Len(Unpruned[d]) :
                          /\ DOMAIN feat_out[d][i] \subseteq DOMAIN Unpruned[d][i]
                          /\ \A k \in DOMAIN Unpruned[d][i] :
                                /\ k \in DOMAIN feat_out[d][i]
                                      <=> Cardinality(DocsWith(k, Unpruned[d][i][k]))
                                              >= min_df[1]
                                /\ k \in DOMAIN feat_out[d][i]
                                      => feat_out[d][i][k] = Unpruned[d][i][k]
        /\ (min_df # None /\ min_df[1] > 1 /\ min_df[1] > Len(feat_in)) =>
              \A d \in 1 .. Len(feat_out) :
                  \A i \in 1 .. Len(feat_out[d]) : DOMAIN feat_out[d][i] = {}

\* A corpus of two documents pruned with min_df = 2: a pair that occurs
\* twice in one document and in no other is dropped, a pair of both
\* documents is kept.
C5_Witness ==
    /\ feat_op = "fit_transform"
    /\ min_df = Some(2)
    /\ Len(feat_in) = 2
    /\ \E d \in 1 .. 2 :
          \E i, j \in 1 .. Len(Unpruned[d]) :
              /\ i # j
              /\ K_tok \in DOMAIN Unpruned[d][i]
              /\ K_tok \in DOMAIN Unpruned[d][j]
              /\ Unpruned[d][i][K_tok] = Unpruned[d][j][K_tok]
              /\ K_tok \notin DOMAIN feat_out[d][i]
    /\ \E d \in 1 .. 2 :
          \E i \in 1 .. Len(feat_out[d]) : K_tok \in DOMAIN feat_out[d][i]

(***************************************************************************)
(* Properties of WapitiFeatureEncoder.                                     *)
(***************************************************************************)
\* C6: without a reset in between, a fit or partial_fit leaves every name
\* in the column it had: the new feature_names_ starts with the old one.
C6_ColumnsNeverChange ==
    [][(feature_names_ # None /\ feature_names_' # None) =>
          /\ Len(feature_names_'[1]) >= Len(feature_names_[1])
          /\ \A i \in 1 .. Len(feature_names_[1]) :
                feature_names_'[1][i] = feature_names_[1][i]]_vars

\* C7: once fitted, the move-to-front names are the first columns, in
\* their declared order, and none of them appears again in the tail.
C7_MoveToFrontOnlyInFront ==
    feature_names_ # None =>
        LET names == feature_names_[1]
            k == Len(move_to_front)
        IN  /\ Len(names) >= k
            /\ SubSeq(names, 1, k) = move_to_front
            /\ \A i \in k + 1 .. Len(names) : names[i] \notin Range(move_to_front)
            /\ \A f \in Range(move_to_front) :
                  \E i \in 1 .. k : move_to_front[i] = f /\ vocabulary_[1][f] = i - 1

\* C8: after reset() nothing fitted remains: an encoder without
\* feature_names_ has no vocabulary_ either, and prepare_template of a
\* symbolic column, having no column to resolve it to, returns no template.
C8_ResetClearsFittedState ==
    /\ feature_names_ = None => vocabulary_ = None
    /\ (enc_op = "prepare_template" /\ feature_names_ = None) => enc_out.err # ""

\* The columns in which names lists the feature name f.
ColumnsOf(names, f) == {i - 1 : i \in {j \in 1 .. Len(names) : names[j] = f}}

\* The fields of a row: what its whitespace separates.
Fields(row) == SelectSeq(row, LAMBDA x : x # " ")

\* C9: in the fitted state transform_single returns one row per dictionary,
\* each row with exactly one field per vocabulary name, the field of a name
\* in the column prepare_template resolves the name to, holding the text of
\* the name's value or the placeholder; and unigram_features_template
\* prints that column, and no other, for the name.
C9_RowsFollowVocabulary ==
    (enc_op = "transform_single" /\ feature_names_ # None) =>
        LET names == feature_names_[1]
            vocab == vocabulary_[1]
            unigrams == splitlines(unigram_features_template("u", feature_names_).text)
        IN  /\ enc_out.err = ""
            /\ Len(enc_out.rows) = Len(enc_in)
            /\ \A r \in 1 .. Len(enc_in) :
                  /\ Len(Fields(enc_out.rows[r])) = Cardinality(DOMAIN vocab)
                  /\ \A f \in DOMAIN vocab :
                        Fields(enc_out.rows[r])[vocab[f] + 1] = tostr(get(enc_in[r], f))
            /\ \A f \in DOMAIN vocab :
                  /\ ColumnsOf(names, f) = {vocab[f]}
                  /\ prepare_template(MacroOf(f), vocabulary_).text
                        = MacroOf(IntToChars(vocab[f]))
                  /\ \A c \in 0 .. Len(names) - 1 :
                        (\E l \in 1 .. Len(unigrams) : unigrams[l] = unigram_line("u", f, c))
                            <=> c = vocab[f]

(***************************************************************************)
(* Properties of prepare_wapiti_template.                                  *)
(***************************************************************************)
RECURSIVE RewriteKeepingText(_, _)
\* The template with the column of every macro of every line that is no
\* comment rewritten, and every other character, line terminators
\* included, as it was.
RewriteKeepingText(template, vocabulary) ==
    IF template = <<>> THEN <<>>
    ELSE LET ends == {j \in 1 .. Len(template) : template[j] = NL}
             i == IF ends = {} THEN Len(template) + 1
                  ELSE CHOOSE j \in ends : \A k \in ends : j <= k
             line == SubSeq(template, 1, i - 1)
             done == IF _wapiti_line_is_comment(line) THEN line
                     ELSE MacroSub(line, 1, vocabulary).text
         IN  IF ends = {} THEN done
             ELSE done \o <<NL>>
                  \o RewriteKeepingText(SubSeq(template, i + 1, Len(template)), vocabulary)

\* C10: prepare_template rewrites the columns of the macros of the lines
\* that are no comments and leaves every other character of the template as
\* it was; a template it has returned it returns unchanged.
C10_OnlyMacroColumnsChange ==
    (enc_op \in {"prepare_template", "prepare_template_again"}
     /\ vocabulary_ # None /\ enc_out.err = "") =>
        /\ enc_out.text = RewriteKeepingText(enc_in, vocabulary_[1])
        /\ enc_op = "prepare_template_again" => enc_out.text = enc_in

\* The template without one line terminator at its very end.
WithoutFinalNewline(template) ==
    IF template # <<>> /\ template[Len(template)] = NL
    THEN SubSeq(template, 1, Len(template) - 1) ELSE template

\* What prepare_template does keep: everything but a line terminator at the
\* very end of the template.
TemplateKeptUpToFinalNewline ==
    (enc_op \in {"prepare_template", "prepare_template_again"}
     /\ vocabulary_ # None /\ enc_out.err = "") =>
        enc_out.text = RewriteKeepingText(WithoutFinalNewline(enc_in), vocabulary_[1])

(***************************************************************************)
(* Failure of template resolution.                                         *)
(***************************************************************************)
\* A comment line: its first character that is no whitespace is the
\* comment marker.
IsCommentLine(line) ==
    \E i \in 1 .. Len(line) :
        line[i] = "#" /\ \A j \in 1 .. i - 1 : IsSpace(line[j])

RECURSIVE UnknownColumns(_, _, _)
\* The symbolic columns of the macros of line, from position i on, that
\* are no names of the vocabulary.
UnknownColumns(line, i, vocabulary) ==
    IF i > Len(line) THEN {}
    ELSE LET m == MacroMatch(line, i)
         IN  IF ~m.ok THEN UnknownColumns(line, i + 1, vocabulary)
             ELSE (IF isdigit(m.column) \/ m.column \in DOMAIN vocabulary
                   THEN {} ELSE {m.column})
                  \cup UnknownColumns(line, m.last + 1, vocabulary)

\* The lines of the template that are no comments and hold a macro with an
\* unknown symbolic column.
UnresolvableLines(template, vocabulary) ==
    LET lines == splitlines(template)
    IN  {l \in 1 .. Len(lines) :
            ~IsCommentLine(lines[l]) /\ UnknownColumns(lines[l], 1, vocabulary) # {}}

\* The comment lines of the template that hold a macro with an unknown
\* symbolic column.
UnresolvableComments(template, vocabulary) ==
    LET lines == splitlines(template)
    IN  {l \in 1 .. Len(lines) :
            IsCommentLine(lines[l]) /\ UnknownColumns(lines[l], 1, vocabulary) # {}}

\* C11: on a fitted encoder prepare_template fails with the error of an
\* unknown feature name (KeyError), and returns no template, exactly when
\* a macro of a line that is no comment has a symbolic column the
\* vocabulary does not hold; unknown names in comment lines cause no
\* failure.
C11_UnknownNameFails ==
    (enc_op = "prepare_template" /\ vocabulary_ # None) =>
        IF UnresolvableLines(enc_in, vocabulary_[1]) # {}
        THEN enc_out = [err |-> "KeyError", text |-> <<>>]
        ELSE enc_out.err = ""

\* A template with an unknown name in a comment line and in a line that is
\* no comment has been refused.
C11_Witness ==
    /\ enc_op = "prepare_template"
    /\ vocabulary_ # None
    /\ UnresolvableLines(enc_in, vocabulary_[1]) # {}
    /\ UnresolvableComments(enc_in, vocabulary_[1]) # {}
    /\ enc_out.err = "KeyError"

\* A template whose only unknown names are in comment lines, one of them
\* indented, has been compiled.
UnknownNameInCommentCompiled ==
    /\ enc_op = "prepare_template"
    /\ vocabulary_ # None
    /\ UnresolvableLines(enc_in, vocabulary_[1]) = {}
    /\ \E l \in UnresolvableComments(enc_in, vocabulary_[1]) :
          splitlines(enc_in)[l][1] = " "
    /\ enc_out.err = ""

(***************************************************************************)
(* Properties of WapitiCRF.fit.                                            *)
(***************************************************************************)
\* C12: with unlink_temp enabled, when fit has returned or raised, none of
\* the temporary files this call created is left.
C12_NoTempFileLeft ==
    (crf_pc \in {"returned", "raised"} /\ unlink_temp) => tempdir = {}

\* The same for the calls in which no step fails.
NoTempFileLeftOnReturn ==
    (crf_pc = "returned" /\ unlink_temp) => tempdir = {}

\* What fit does remove: the files it has put on to_unlink.
ListedFilesRemoved ==
    (crf_pc \in {"returned", "raised"} /\ unlink_temp) =>
        tempdir \cap Range(to_unlink) = {}

=============================================================================
